---- MODULE Spec2Model ----
(***************************************************************************)
(* A model of Code.js (kirokukun3): the Apps Script backend that saves     *)
(* media payloads into Drive folders and logs each save in a history       *)
(* sheet.  JavaScript values are tagged records, strings are TLA+ strings  *)
(* handled character by character, Drive is a sequence of folders and a    *)
(* sequence of files, and a sheet is a grid (a sequence of rows of cells). *)
(* Every backend call may fail: a call made with the set F of failing      *)
(* backend operations throws where the code reaches one of them.           *)
(***************************************************************************)
EXTENDS Integers, Sequences, FiniteSets, TLC

(***************************************************************************)
(* Bounds of the model.                                                    *)
(***************************************************************************)
MaxCalls == 1
MaxHistoryCalls == 1
MaxHeaderCols == 2
MaxModeCalls == 2
MaxSequenceCalls == 3
MaxRaceCalls == 2
NProcs == 2

(***************************************************************************)
(* Program constants (Code.js lines 9-14).                                 *)
(***************************************************************************)
\* String literals of the source written in Japanese are given in ASCII (the
\* module's strings are ASCII); each is compared for equality only:
\*   "MediaSaveFolder" = "メディア保存フォルダ"     "History"    = "履歴"
\*   "FileName"        = "ファイル名"               "SavedAt"    = "保存日時"
\*   "FolderPath"      = "フォルダパス"             "FileLink"   = "ファイルリンク"
\*   "FileFormat"      = "ファイル形式"             "MediaType"  = "メディアタイプ"
\*   "Audio" = "音声"   "Video" = "動画"   "Photo" = "写真"
\*   "Drawing" = "お絵かき"   "Text" = "テキスト"
PARENT_FOLDER_NAME == "MediaSaveFolder"
HISTORY_HEADERS == <<"FileName", "SavedAt", "FolderPath", "FileLink", "FileFormat", "MediaType">>
MEDIA_TYPE_HEADER == "MediaType"
FILE_FORMAT_HEADER == "FileFormat"

(***************************************************************************)
(* JavaScript values.                                                      *)
(***************************************************************************)
Undefined == [t |-> "undefined"]
Null == [t |-> "null"]
Obj == [t |-> "object"]
Str(s) == [t |-> "string", s |-> s]
Num(n) == [t |-> "number", n |-> n]
Bool(b) == [t |-> "boolean", b |-> b]

IsString(v) == v.t = "string"

\* ToBoolean: what `!x` and `x || y` test.
Truthy(v) ==
  CASE v.t = "string" -> v.s # ""
    [] v.t = "number" -> v.n # 0
    [] v.t = "boolean" -> v.b
    [] v.t = "object" -> TRUE
    [] OTHER -> FALSE

Min(S) == CHOOSE x \in S : \A y \in S : x <= y
Max(S) == CHOOSE x \in S : \A y \in S : x >= y

Digits == <<"0", "1", "2", "3", "4", "5", "6", "7", "8", "9">>

RECURSIVE IntToStr(_)
IntToStr(n) ==
  IF n < 0 THEN "-" \o IntToStr(0 - n)
  ELSE IF n < 10 THEN Digits[n + 1]
  ELSE IntToStr(n \div 10) \o Digits[(n % 10) + 1]

\* String(v), as a template literal `${v}` and value.toString() compute it.
JsToString(v) ==
  CASE v.t = "string" -> v.s
    [] v.t = "number" -> IntToStr(v.n)
    [] v.t = "boolean" -> (IF v.b THEN "true" ELSE "false")
    [] v.t = "object" -> "[object Object]"
    [] v.t = "null" -> "null"
    [] OTHER -> "undefined"

(***************************************************************************)
(* String.prototype functions, on TLA+ strings.                            *)
(***************************************************************************)
CharAt(s, i) == SubSeq(s, i, i)

UpperLetters == "ABCDEFGHIJKLMNOPQRSTUVWXYZ"
LowerLetters == "abcdefghijklmnopqrstuvwxyz"

LetterIndex(letters, c) == {i \in 1..26 : CharAt(letters, i) = c}

LowerChar(c) ==
  IF LetterIndex(UpperLetters, c) # {}
  THEN CharAt(LowerLetters, Min(LetterIndex(UpperLetters, c)))
  ELSE c

UpperChar(c) ==
  IF LetterIndex(LowerLetters, c) # {}
  THEN CharAt(UpperLetters, Min(LetterIndex(LowerLetters, c)))
  ELSE c

RECURSIVE toLowerCase(_)
toLowerCase(s) ==
  IF Len(s) = 0 THEN ""
  ELSE LowerChar(CharAt(s, 1)) \o toLowerCase(SubSeq(s, 2, Len(s)))

RECURSIVE toUpperCase(_)
toUpperCase(s) ==
  IF Len(s) = 0 THEN ""
  ELSE UpperChar(CharAt(s, 1)) \o toUpperCase(SubSeq(s, 2, Len(s)))

endsWith(s, suffix) ==
  /\ Len(suffix) <= Len(s)
  /\ SubSeq(s, Len(s) - Len(suffix) + 1, Len(s)) = suffix

startsWith(s, prefix) ==
  /\ Len(prefix) <= Len(s)
  /\ SubSeq(s, 1, Len(prefix)) = prefix

WhiteSpace == {" ", "\t", "\n", "\r", "\f"}
LineTerminators == {"\n", "\r"}

trim(s) ==
  LET keep == {i \in 1..Len(s) : CharAt(s, i) \notin WhiteSpace}
  IN IF keep = {} THEN "" ELSE SubSeq(s, Min(keep), Max(keep))

\* subFolderName.replace(/[\\\/:\*\?"<>\|]/g, '_')
UnsafeChars == {"\\", "/", ":", "*", "?", "\"", "<", ">", "|"}

RECURSIVE sanitize(_)
sanitize(s) ==
  IF Len(s) = 0 THEN ""
  ELSE (IF CharAt(s, 1) \in UnsafeChars THEN "_" ELSE CharAt(s, 1))
         \o sanitize(SubSeq(s, 2, Len(s)))

\* The regular expression's `.`: any character but a line terminator.
DotRun(s, i, j) == \A k \in i..j : CharAt(s, k) \notin LineTerminators

NoMatch == [matched |-> FALSE]

\* The pattern without its "data:" prefix: /^.{5}(.+?);base64,(.+)$/.
matchDataUrl_AnyPrefix(s) ==
  LET n == Len(s)
      ends == {e \in 6..n : /\ e + 9 <= n
                            /\ SubSeq(s, e + 1, e + 8) = ";base64,"
                            /\ DotRun(s, 1, e)
                            /\ DotRun(s, e + 9, n)}
  IN IF ends # {}
     THEN [matched |-> TRUE, mime |-> SubSeq(s, 6, Min(ends)),
           data |-> SubSeq(s, Min(ends) + 9, n)]
     ELSE NoMatch

\* dataUrl.match(/^data:(.+?);base64,(.+)$/): the lazy first group ends at the
\* first place from which the rest of the pattern matches to the end of input.
matchDataUrl(s) ==
  LET n == Len(s)
      ends == {e \in 6..n : /\ e + 9 <= n
                            /\ SubSeq(s, e + 1, e + 8) = ";base64,"
                            /\ DotRun(s, 6, e)
                            /\ DotRun(s, e + 9, n)}
  IN IF startsWith(s, "data:") /\ ends # {}
     THEN [matched |-> TRUE, mime |-> SubSeq(s, 6, Min(ends)),
           data |-> SubSeq(s, Min(ends) + 9, n)]
     ELSE NoMatch

\* drawingDataUrl.match(/^data:(image\/png);base64,(.+)$/)
PngPrefix == "data:image/png;base64,"

matchPngDataUrl(s) ==
  LET n == Len(s)
      p == Len(PngPrefix)
  IN IF startsWith(s, PngPrefix) /\ n > p /\ DotRun(s, p + 1, n)
     THEN [matched |-> TRUE, mime |-> "image/png", data |-> SubSeq(s, p + 1, n)]
     ELSE NoMatch

(***************************************************************************)
(* The world the backend acts on, and what an operation returns.           *)
(*   folders : the Drive folders; a folder's id is its index, 0 the root   *)
(*   files   : the Drive files, in creation order                          *)
(*   settings: the sheet "シート1": whether it exists, cell B1, cells E1:E5  *)
(*   hist    : the history sheet: whether it exists, and its grid          *)
(*   clock   : what new Date() reads                                       *)
(*   log     : which Logger.log lines the running call has written         *)
(* An operation returns [w, threw, v]: the world it leaves, whether it     *)
(* threw, and its return value when it did not.                            *)
(***************************************************************************)
Ret(w, v) == [w |-> w, threw |-> FALSE, v |-> v]
Throw(w) == [w |-> w, threw |-> TRUE, v |-> Undefined]

Logged(w, tag) == [w EXCEPT !.log = @ \cup {tag}]

ROOT == 0

\* The backend operations that can fail.
FolderFaults == {"getFoldersByName", "createFolder", "getFolderById"}
SaveFaults == {"settingsOpen", "base64Decode", "createFile", "getUrl"}
HistoryFaults == {"histOpen", "getRange", "setValue", "formatDate", "appendRow"}
ModeFaults == {"modeOpen", "modeSetValue"}

(***************************************************************************)
(* Drive.                                                                  *)
(***************************************************************************)
\* A lookup that never finds the folder.
getFoldersByName_FindsNone(folders, parent, name) == {}

\* parentFolder.getFoldersByName(folderName): the ids of the children of that name.
getFoldersByName(folders, parent, name) ==
  {i \in 1..Len(folders) : folders[i].parent = parent /\ folders[i].name = name}

\* parentFolder.createFolder(folderName)
createFolder(folders, parent, name) ==
  Append(folders, [name |-> name, parent |-> parent])

FolderName(folders, id) == folders[id].name
FolderUrl(id) == "https://drive/folders/" \o IntToStr(id)
FileUrl(id) == "https://drive/file/" \o IntToStr(id)

\* The folder name check of getOrCreateFolderIdByName.
ValidFolderName(folderName) ==
  /\ Truthy(folderName)
  /\ IsString(folderName)
  /\ trim(folderName.s) # ""

\* function getOrCreateFolderIdByName(folderName, parentFolder): the iterator's
\* first folder is the one of least id (with one match there is no choice).
getOrCreateFolderIdByName(w, folderName, parent, F) ==
  IF ~ValidFolderName(folderName) THEN Throw(w)
  ELSE IF "getFoldersByName" \in F THEN Throw(w)
  ELSE LET found == getFoldersByName(w.folders, parent, folderName.s)
       IN IF found # {} THEN Ret(w, Min(found))
          ELSE IF "createFolder" \in F THEN Throw(Logged(w, "folderCreateFailed"))
          ELSE Ret(Logged([w EXCEPT !.folders = createFolder(@, parent, folderName.s)],
                          "folderCreated"),
                   Len(w.folders) + 1)

(***************************************************************************)
(* The settings sheet.                                                     *)
(***************************************************************************)
\* function getSubFolderNameFromSheet(): null, or the sanitised name in B1.
getSubFolderNameFromSheet(w, F) ==
  IF "settingsOpen" \in F THEN Null
  ELSE IF ~w.settings.exists THEN Null
  ELSE LET subFolderName == trim(JsToString(w.settings.b1))
       IN IF subFolderName = "" THEN Null ELSE Str(sanitize(subFolderName))

(***************************************************************************)
(* The history sheet: a grid of cells, "" an empty cell.                   *)
(***************************************************************************)
LastFilled(row) == LET f == {c \in 1..Len(row) : row[c] # ""}
                   IN IF f = {} THEN 0 ELSE Max(f)

getLastColumn(grid) ==
  IF Len(grid) = 0 THEN 0 ELSE Max({LastFilled(grid[r]) : r \in 1..Len(grid)})

getLastRow(grid) ==
  LET f == {r \in 1..Len(grid) : LastFilled(grid[r]) > 0}
  IN IF f = {} THEN 0 ELSE Max(f)

\* sheet.getRange(row, 1, 1, n).getValues()[0]
getRowValues(grid, row, n) ==
  [c \in 1..n |-> IF row <= Len(grid) /\ c <= Len(grid[row]) THEN grid[row][c] ELSE ""]

\* sheet.getRange(row, col).setValue(value)
setValue(grid, row, col, value) ==
  LET rows == IF Len(grid) >= row THEN Len(grid) ELSE row
      width == IF row <= Len(grid) /\ Len(grid[row]) >= col THEN Len(grid[row]) ELSE col
  IN [r \in 1..rows |->
        IF r = row
        THEN [c \in 1..width |-> IF c = col THEN value ELSE getRowValues(grid, row, width)[c]]
        ELSE IF r <= Len(grid) THEN grid[r] ELSE <<>>]

\* sheet.appendRow(values): the row after the last row that has content.
appendRow(grid, values) == Append(SubSeq(grid, 1, getLastRow(grid)), values)

includes(headers, name) == \E c \in 1..Len(headers) : headers[c] = name

\* The existing-sheet branch writing its headers into the sheet's last row.
migrateHeader_LastRow(w, F) ==
  LET grid == w.hist.grid
      lastColumn == getLastColumn(grid)
  IN IF "getRange" \in F \/ lastColumn < 1 THEN Throw(w)
     ELSE
       LET headers == getRowValues(grid, 1, lastColumn)
           row == getLastRow(grid)
           grid1 == IF ~includes(headers, MEDIA_TYPE_HEADER)
                    THEN setValue(grid, row, Len(headers) + 1, MEDIA_TYPE_HEADER)
                    ELSE grid
           grid2 == IF ~includes(headers, FILE_FORMAT_HEADER)
                    THEN setValue(grid1, row, Len(headers) + 1, FILE_FORMAT_HEADER)
                    ELSE grid1
       IN Ret([w EXCEPT !.hist.grid = grid2], "sheet")

\* The existing-sheet branch of createHistorySheetIfNotExists (lines 95-114):
\* `headers` is read once, and both column checks test that one reading.
migrateHeader(w, F) ==
  LET grid == w.hist.grid
      lastColumn == getLastColumn(grid)
  IN IF "getRange" \in F \/ lastColumn < 1 THEN Throw(w)
     ELSE
       LET headers == getRowValues(grid, 1, lastColumn)
           needMedia == ~includes(headers, MEDIA_TYPE_HEADER)
           needFormat == ~includes(headers, FILE_FORMAT_HEADER)
           mediaCol == Len(headers) + 1
           grid1 == IF needMedia THEN setValue(grid, 1, mediaCol, MEDIA_TYPE_HEADER)
                    ELSE grid
           formatCol == IF includes(headers, MEDIA_TYPE_HEADER)
                        THEN Len(headers) ELSE Len(headers) + 1
           grid2 == IF needFormat THEN setValue(grid1, 1, formatCol, FILE_FORMAT_HEADER)
                    ELSE grid1
       IN IF needMedia /\ "setValue" \in F THEN Throw(w)
          ELSE IF needFormat /\ "setValue" \in F
               THEN Throw([w EXCEPT !.hist.grid = grid1])
          ELSE Ret([w EXCEPT !.hist.grid = grid2], "sheet")

\* function createHistorySheetIfNotExists()
createHistorySheetIfNotExists(w, F) ==
  IF "histOpen" \in F THEN Throw(w)
  ELSE IF ~w.hist.exists
  THEN IF "appendRow" \in F
       THEN Throw([w EXCEPT !.hist = [exists |-> TRUE, grid |-> <<>>]])
       ELSE LET w1 == [w EXCEPT !.hist = [exists |-> TRUE,
                                          grid |-> appendRow(<<>>, HISTORY_HEADERS)]]
            IN \* line 84: the header row is made bold through getRange
               IF "getRange" \in F THEN Throw(w1)
               ELSE Ret(Logged(w1, "historyCreated"), "sheet")
  ELSE migrateHeader(w, F)

formatDate(clock) == "T" \o IntToStr(clock)

HYPERLINK(url, text) == "=HYPERLINK(\"" \o url \o "\",\"" \o text \o "\")"

HistoryRow(w, fileName, folderPathText, folderUrl, fileUrl, fileFormat, mediaType) ==
  <<fileName, formatDate(w.clock), HYPERLINK(folderUrl, folderPathText),
    HYPERLINK(fileUrl, fileName), toUpperCase(fileFormat), mediaType>>

\* function addRecordToHistorySheet(...), with its try/catch removed.
addRecordToHistorySheet_NoCatch(w, fileName, folderPathText, folderUrl, fileUrl, fileFormat, mediaType, F) ==
  LET s == createHistorySheetIfNotExists(w, F)
  IN IF s.threw THEN Throw(s.w)
     ELSE IF "formatDate" \in F \/ "appendRow" \in F THEN Throw(s.w)
     ELSE Ret(Logged([s.w EXCEPT !.hist.grid =
                        appendRow(@, HistoryRow(w, fileName, folderPathText, folderUrl,
                                                fileUrl, fileFormat, mediaType))],
                     "historyRecorded"),
              Undefined)

\* function addRecordToHistorySheet(...): every failure is caught and logged.
addRecordToHistorySheet(w, fileName, folderPathText, folderUrl, fileUrl, fileFormat, mediaType, F) ==
  LET s == createHistorySheetIfNotExists(w, F)
  IN IF s.threw THEN Ret(Logged(s.w, "historyError"), Undefined)
     ELSE IF "formatDate" \in F \/ "appendRow" \in F
     THEN Ret(Logged(s.w, "historyError"), Undefined)
     ELSE Ret(Logged([s.w EXCEPT !.hist.grid =
                        appendRow(@, HistoryRow(w, fileName, folderPathText, folderUrl,
                                                fileUrl, fileFormat, mediaType))],
                     "historyRecorded"),
              Undefined)

(***************************************************************************)
(* The save handlers.                                                      *)
(***************************************************************************)
\* The folder resolution each handler repeats (lines 159-177, 232-249,
\* 293-310, 349-366, 407-424): the target folder, its path text and its URL.
resolveTargetFolder(w, F) ==
  LET p == getOrCreateFolderIdByName(w, Str(PARENT_FOLDER_NAME), ROOT, F)
  IN IF p.threw THEN Throw(p.w)
     ELSE IF "getFolderById" \in F THEN Throw(p.w)
     ELSE
       LET subFolderNameRaw == getSubFolderNameFromSheet(p.w, F)
       IN IF Truthy(subFolderNameRaw)
          THEN LET c == getOrCreateFolderIdByName(p.w, subFolderNameRaw, p.v, F)
               IN IF c.threw THEN Throw(c.w)
                  ELSE Ret(c.w, [targetFolder |-> c.v,
                                 folderPathText |-> FolderName(c.w.folders, p.v) \o " > "
                                                      \o FolderName(c.w.folders, c.v),
                                 targetFolderUrl |-> FolderUrl(c.v)])
          ELSE Ret(p.w, [targetFolder |-> p.v,
                         folderPathText |-> FolderName(p.w.folders, p.v),
                         targetFolderUrl |-> FolderUrl(p.v)])

\* targetFolder.createFile(blob)
createFile(w, folder, name, mime) ==
  [w EXCEPT !.files = Append(@, [name |-> name, folder |-> folder, mime |-> mime])]

\* The message of a success result: the media type, the file name, the format
\* where the handler shows one, and the folder path.
SavedMessage(mediaType, finalFileName, format, folderPathText) ==
  mediaType \o " file \"" \o finalFileName \o "\""
    \o (IF format = "" THEN "" ELSE " (" \o format \o ")")
    \o " saved to folder " \o folderPathText

\* The object saveAudioFile returns on success (lines 201-207).
AudioSuccess(r) ==
  [success |-> TRUE,
   message |-> SavedMessage("Audio", r.fileName, "", r.folderPathText),
   fileId |-> r.fileId, fileName |-> r.fileName, fileUrl |-> r.fileUrl]

\* The object the other four handlers return on success: {success, message}
\* (lines 265-268, 327-330, 382-385, 433-436).
Success(mediaType, format, r) ==
  [success |-> TRUE,
   message |-> SavedMessage(mediaType, r.fileName, format, r.folderPathText)]

\* The return statement that ends the try block of the handler of a media type.
SuccessOf(mediaType, fileFormat, r) ==
  IF mediaType = "Audio" THEN AudioSuccess(r)
  ELSE IF mediaType = "Text" THEN Success(mediaType, "", r)
  ELSE Success(mediaType, toUpperCase(fileFormat), r)

\* Decode (the four data-URL handlers), create the file, read its URL, log the
\* save, return the success object: the tail of every handler (lines 191-207,
\* 258-268, 319-330, 375-385, 427-436).
writeFile(w, t, finalFileName, mime, fileFormat, mediaType, decodes, F) ==
  IF (decodes /\ "base64Decode" \in F) \/ "createFile" \in F THEN Throw(w)
  ELSE LET w1 == createFile(w, t.targetFolder, finalFileName, mime)
           fileId == Len(w1.files)
       IN IF "getUrl" \in F THEN Throw(w1)
          ELSE LET h == addRecordToHistorySheet(w1, finalFileName, t.folderPathText,
                                                t.targetFolderUrl, FileUrl(fileId),
                                                fileFormat, mediaType, F)
               IN IF h.threw THEN Throw(h.w)
                  ELSE Ret(h.w, SuccessOf(mediaType, fileFormat,
                                          [fileId |-> fileId, fileName |-> finalFileName,
                                           fileUrl |-> FileUrl(fileId),
                                           folderPathText |-> t.folderPathText]))

Failure(op) == [success |-> FALSE, message |-> op \o ": error while saving"]

\* The try block of saveAudioFile (lines 152-207).
saveAudioFileBody(w, audioDataUrl, baseFileName, F) ==
  IF ~Truthy(audioDataUrl) \/ ~IsString(audioDataUrl) THEN Throw(w)
  ELSE IF ~Truthy(baseFileName) \/ ~IsString(baseFileName) THEN Throw(w)
  ELSE IF trim(baseFileName.s) = "" THEN Throw(w)
  ELSE LET t == resolveTargetFolder(w, F)
       IN IF t.threw THEN Throw(t.w)
          ELSE LET parts == matchDataUrl(audioDataUrl.s)
               IN IF ~parts.matched THEN Throw(t.w)
                  ELSE LET finalFileName ==
                             IF endsWith(toLowerCase(baseFileName.s), ".mp3")
                             THEN baseFileName.s
                             ELSE baseFileName.s \o ".mp3"
                       IN writeFile(t.w, t.v, finalFileName, parts.mime, "MP3", "Audio", TRUE, F)

\* The catch block of every handler: log, and return the failure object.
Caught(r, op) ==
  IF r.threw THEN Ret(Logged(r.w, "saveError"), Failure(op)) ELSE r

\* function saveAudioFile(audioDataUrl, baseFileName)
saveAudioFile(w, audioDataUrl, baseFileName, F) ==
  Caught(saveAudioFileBody(w, audioDataUrl, baseFileName, F), "saveAudioFile")

\* A parameter's default value applies when the argument is undefined.
Default(arg, value) == IF arg = Undefined THEN Str(value) ELSE arg

VideoExtensions == {"mp4", "webm"}
PhotoExtensions == {"jpg", "jpeg", "png"}

\* The try block of saveVideoFile (lines 222-268).
saveVideoFileBody(w, videoDataUrl, baseFileName, extension, mimeType, F) ==
  IF ~Truthy(videoDataUrl) \/ ~Truthy(baseFileName) THEN Throw(w)
  ELSE IF ~IsString(Default(extension, "webm")) THEN Throw(w)
  ELSE LET supplied == Default(extension, "webm").s
           ext == IF toLowerCase(supplied) \in VideoExtensions THEN supplied ELSE "webm"
           blobType == Default(mimeType, "video/webm")
           t == resolveTargetFolder(w, F)
       IN IF t.threw THEN Throw(t.w)
          ELSE IF ~IsString(videoDataUrl) THEN Throw(t.w)
          ELSE LET parts == matchDataUrl(videoDataUrl.s)
               IN IF ~parts.matched THEN Throw(t.w)
                  ELSE writeFile(t.w, t.v,
                                 JsToString(baseFileName) \o "." \o toLowerCase(ext),
                                 IF Truthy(blobType) THEN JsToString(blobType)
                                 ELSE parts.mime,
                                 ext, "Video", TRUE, F)

\* function saveVideoFile(...), with no catch block.
saveVideoFile_NoCatch(w, videoDataUrl, baseFileName, extension, mimeType, F) ==
  saveVideoFileBody(w, videoDataUrl, baseFileName, extension, mimeType, F)

\* function saveVideoFile(videoDataUrl, baseFileName, extension, mimeType)
saveVideoFile(w, videoDataUrl, baseFileName, extension, mimeType, F) ==
  Caught(saveVideoFileBody(w, videoDataUrl, baseFileName, extension, mimeType, F),
         "saveVideoFile")

\* The try block of savePhotoFile (lines 283-330).
savePhotoFileBody(w, photoDataUrl, baseFileName, extension, F) ==
  IF ~Truthy(photoDataUrl) \/ ~Truthy(baseFileName) THEN Throw(w)
  ELSE IF ~IsString(Default(extension, "jpg")) THEN Throw(w)
  ELSE LET supplied == Default(extension, "jpg").s
           ext == IF toLowerCase(supplied) \in PhotoExtensions THEN supplied ELSE "jpg"
           formatDisplay == IF toUpperCase(ext) = "JPEG" THEN "JPG" ELSE toUpperCase(ext)
           t == resolveTargetFolder(w, F)
       IN IF t.threw THEN Throw(t.w)
          ELSE IF ~IsString(photoDataUrl) THEN Throw(t.w)
          ELSE LET parts == matchDataUrl(photoDataUrl.s)
               IN IF ~parts.matched THEN Throw(t.w)
                  ELSE writeFile(t.w, t.v,
                                 JsToString(baseFileName) \o "." \o toLowerCase(ext),
                                 parts.mime, formatDisplay, "Photo", TRUE, F)

\* function savePhotoFile(photoDataUrl, baseFileName, extension)
savePhotoFile(w, photoDataUrl, baseFileName, extension, F) ==
  Caught(savePhotoFileBody(w, photoDataUrl, baseFileName, extension, F), "savePhotoFile")

\* The try block of saveDrawingFile (lines 345-385).
saveDrawingFileBody(w, drawingDataUrl, baseFileName, F) ==
  IF ~Truthy(drawingDataUrl) \/ ~Truthy(baseFileName) THEN Throw(w)
  ELSE LET t == resolveTargetFolder(w, F)
       IN IF t.threw THEN Throw(t.w)
          ELSE IF ~IsString(drawingDataUrl) THEN Throw(t.w)
          ELSE LET parts == matchPngDataUrl(drawingDataUrl.s)
               IN IF ~parts.matched THEN Throw(t.w)
                  ELSE writeFile(t.w, t.v, JsToString(baseFileName) \o ".png",
                                 parts.mime, "PNG", "Drawing", TRUE, F)

\* function saveDrawingFile(drawingDataUrl, baseFileName)
saveDrawingFile(w, drawingDataUrl, baseFileName, F) ==
  Caught(saveDrawingFileBody(w, drawingDataUrl, baseFileName, F), "saveDrawingFile")

\* The try block of saveTextFile (lines 400-436).
saveTextFileBody(w, textData, baseFileName, F) ==
  IF ~Truthy(textData) \/ ~IsString(textData) THEN Throw(w)
  ELSE IF ~Truthy(baseFileName) \/ ~IsString(baseFileName) THEN Throw(w)
  ELSE IF trim(baseFileName.s) = "" THEN Throw(w)
  ELSE LET t == resolveTargetFolder(w, F)
       IN IF t.threw THEN Throw(t.w)
          ELSE writeFile(t.w, t.v, baseFileName.s \o ".txt", "text/plain",
                         "TXT", "Text", FALSE, F)

\* function saveTextFile(textData, baseFileName)
saveTextFile(w, textData, baseFileName, F) ==
  Caught(saveTextFileBody(w, textData, baseFileName, F), "saveTextFile")

\* function doGet(e): the history sheet is ensured before the page is served;
\* nothing catches what createHistorySheetIfNotExists throws.
doGet(w, F) ==
  LET s == createHistorySheetIfNotExists(w, F)
  IN IF s.threw THEN Throw(s.w) ELSE Ret(s.w, Str("app"))

\* function test_UnifiedMediaApp(): ensures the history sheet, resolves the
\* parent folder, reads the subfolder name and logs two history rows for files
\* it does not create; whatever is thrown is caught and logged.
test_UnifiedMediaApp(w, F) ==
  LET s == createHistorySheetIfNotExists(w, F)
  IN IF s.threw THEN Ret(Logged(s.w, "testError"), Undefined)
     ELSE LET p == getOrCreateFolderIdByName(s.w, Str(PARENT_FOLDER_NAME), ROOT, F)
          IN IF p.threw \/ "getFolderById" \in F
             THEN Ret(Logged(p.w, "testError"), Undefined)
             ELSE LET dummyUrl == "https://drive.google.com/file/d/dummy/view"
                      a == addRecordToHistorySheet(p.w, "test_audio.mp3",
                                                   PARENT_FOLDER_NAME, FolderUrl(p.v),
                                                   dummyUrl, "MP3", "Audio", F)
                      v == addRecordToHistorySheet(a.w, "test_video.mp4",
                                                   PARENT_FOLDER_NAME, FolderUrl(p.v),
                                                   dummyUrl, "MP4", "Video", F)
                  IN Ret(v.w, Undefined)

(***************************************************************************)
(* The mode settings.                                                      *)
(***************************************************************************)
\* values[i] == 1 compares a string cell through Number(string): white space
\* is trimmed, then the text is read as a decimal literal (sign, digits, point,
\* exponent) or as an unsigned 0x / 0o / 0b integer, and rounded to a double.
DecimalDigitChars == {"0", "1", "2", "3", "4", "5", "6", "7", "8", "9"}
BinaryDigitChars == {"0", "1"}
OctalDigitChars == {"0", "1", "2", "3", "4", "5", "6", "7"}
HexDigitChars == DecimalDigitChars \cup {"a", "b", "c", "d", "e", "f",
                                         "A", "B", "C", "D", "E", "F"}

AllIn(s, chars) == \A i \in 1..Len(s) : CharAt(s, i) \in chars

\* The characters of s from position i on.
From(s, i) == IF i > Len(s) THEN "" ELSE SubSeq(s, i, Len(s))
\* The characters of s before position i.
Before(s, i) == IF i <= 1 THEN "" ELSE SubSeq(s, 1, i - 1)

StripZeros(s) ==
  LET nz == {i \in 1..Len(s) : CharAt(s, i) # "0"}
  IN IF nz = {} THEN "" ELSE From(s, Min(nz))

DigitValue(c) == CHOOSE n \in 0..9 : Digits[n + 1] = c

RECURSIVE StrToNat(_)
StrToNat(s) ==
  IF s = "" THEN 0
  ELSE StrToNat(Before(s, Len(s))) * 10 + DigitValue(CharAt(s, Len(s)))

\* 0.a <= 0.b, for digit strings a and b.
RECURSIVE FractionLeq(_, _)
FractionLeq(a, b) ==
  IF a = "" THEN TRUE
  ELSE IF b = "" THEN AllIn(a, {"0"})
  ELSE LET x == DigitValue(CharAt(a, 1))
           y == DigitValue(CharAt(b, 1))
       IN IF x < y THEN TRUE
          ELSE IF x > y THEN FALSE
          ELSE FractionLeq(From(a, 2), From(b, 2))

\* The doubles next to 1 are 1 - 2^-53 and 1 + 2^-52; a value rounds to 1 (ties
\* to even) when it lies in [1 - 2^-54, 1 + 2^-53]. The fraction digits of the
\* two ends:
BelowOne == "999999999999999944488848768742172978818416595458984375"
AboveOne == "00000000000000011102230246251565404236316680908203125"

\* Whether 0.<digits> * 10^point rounds to the double 1.
RoundsToOne(digits, point) ==
  LET nz == StripZeros(digits)
      p == point - (Len(digits) - Len(nz))
  IN IF nz = "" THEN FALSE
     ELSE IF p = 1 THEN CharAt(nz, 1) = "1" /\ FractionLeq(From(nz, 2), AboveOne)
     ELSE IF p = 0 THEN FractionLeq(BelowOne, nz)
     ELSE FALSE

\* Number(t) == 1 for a trimmed decimal literal t. (An exponent of more than six
\* digits moves the point further than the digits of the text reach.)
DecimalIsOne(t) ==
  LET signed == t # "" /\ CharAt(t, 1) \in {"+", "-"}
      u == IF signed THEN From(t, 2) ELSE t
      es == {i \in 1..Len(u) : CharAt(u, i) \in {"e", "E"}}
      mantissa == IF es = {} THEN u ELSE Before(u, Min(es))
      exponentPart == IF es = {} THEN "0" ELSE From(u, Min(es) + 1)
      exponentSigned == exponentPart # "" /\ CharAt(exponentPart, 1) \in {"+", "-"}
      exponentDigits == IF exponentSigned THEN From(exponentPart, 2) ELSE exponentPart
      dots == {i \in 1..Len(mantissa) : CharAt(mantissa, i) = "."}
      intPart == IF dots = {} THEN mantissa ELSE Before(mantissa, Min(dots))
      fracPart == IF dots = {} THEN "" ELSE From(mantissa, Min(dots) + 1)
      e == StripZeros(exponentDigits)
      exponent == IF exponentSigned /\ CharAt(exponentPart, 1) = "-"
                  THEN 0 - StrToNat(e) ELSE StrToNat(e)
  IN /\ AllIn(intPart, DecimalDigitChars)
     /\ AllIn(fracPart, DecimalDigitChars)
     /\ intPart \o fracPart # ""
     /\ exponentDigits # ""
     /\ AllIn(exponentDigits, DecimalDigitChars)
     /\ ~(signed /\ CharAt(t, 1) = "-")
     /\ Len(e) <= 6
     /\ RoundsToOne(intPart \o fracPart, Len(intPart) + exponent)

\* Number(s) == 1 for an unsigned integer literal of the digits after 0x, 0o, 0b.
IntegerIsOne(digits, chars) ==
  digits # "" /\ AllIn(digits, chars) /\ StripZeros(digits) = "1"

\* Number(s) == 1
StringIsOne(s) ==
  LET t == trim(s)
      prefix == IF Len(t) >= 2 THEN SubSeq(t, 1, 2) ELSE ""
  IN IF prefix \in {"0x", "0X"} THEN IntegerIsOne(From(t, 3), HexDigitChars)
     ELSE IF prefix \in {"0o", "0O"} THEN IntegerIsOne(From(t, 3), OctalDigitChars)
     ELSE IF prefix \in {"0b", "0B"} THEN IntegerIsOne(From(t, 3), BinaryDigitChars)
     ELSE DecimalIsOne(t)

\* values[i] == 1: JavaScript's loose equality with the number 1.
LooseEqualsOne(v) ==
  CASE v.t = "number" -> v.n = 1
    [] v.t = "boolean" -> v.b
    [] v.t = "string" -> StringIsOne(v.s)
    [] OTHER -> FALSE

AllVisible == [audio |-> TRUE, video |-> TRUE, photo |-> TRUE, drawing |-> TRUE,
               text |-> TRUE, error |-> TRUE]

Visible(a, v, p, d, t) == [audio |-> a, video |-> v, photo |-> p, drawing |-> d,
                           text |-> t, error |-> FALSE]

\* function getModeSettings(), without the all-hidden correction.
getModeSettings_NoCorrection(w, F) ==
  IF "modeOpen" \in F THEN Ret(Logged(w, "modeError"), AllVisible)
  ELSE IF ~w.settings.exists THEN Ret(w, AllVisible)
  ELSE LET values == w.settings.e
       IN Ret(w, Visible(LooseEqualsOne(values[1]), LooseEqualsOne(values[2]),
                         LooseEqualsOne(values[3]), LooseEqualsOne(values[4]),
                         LooseEqualsOne(values[5])))

\* function getModeSettings()
getModeSettings(w, F) ==
  IF "modeOpen" \in F THEN Ret(Logged(w, "modeError"), AllVisible)
  ELSE IF ~w.settings.exists THEN Ret(w, AllVisible)
  ELSE LET values == w.settings.e
           audioVisible == LooseEqualsOne(values[1])
           videoVisible == LooseEqualsOne(values[2])
           photoVisible == LooseEqualsOne(values[3])
           drawingVisible == LooseEqualsOne(values[4])
           textVisible == LooseEqualsOne(values[5])
       IN IF ~audioVisible /\ ~videoVisible /\ ~photoVisible /\ ~drawingVisible
               /\ ~textVisible
          THEN IF "modeSetValue" \in F THEN Ret(Logged(w, "modeError"), AllVisible)
               ELSE Ret([w EXCEPT !.settings.e[1] = Num(1)],
                        Visible(TRUE, videoVisible, photoVisible, drawingVisible,
                                textVisible))
          ELSE Ret(w, Visible(audioVisible, videoVisible, photoVisible, drawingVisible,
                              textVisible))

(***************************************************************************)
(* The state machine.                                                      *)
(*   world : the Drive, the sheets, the clock and the running call's log   *)
(*   pre   : the world when the last call began (calls run one at a time)  *)
(*   last  : the last call: its operation, arguments, the backend          *)
(*           operations that were failing, whether it threw, its result    *)
(*   calls : how many calls have run                                       *)
(*   procs, overlapped, resolved : the interleaved executions (RaceSpec)   *)
(***************************************************************************)
VARIABLES world, pre, last, calls, procs, overlapped, resolved

vars == <<world, pre, last, calls, procs, overlapped, resolved>>

\* What the client passes.
ValidAudio == Str("data:audio/mp3;base64,AAAA")
ValidPng == Str("data:image/png;base64,iVBOR")
Payloads == {ValidAudio, ValidPng, Str("image/png;base64,AAAA"), Str("data:image/png"),
             Str(""), Null, Num(5)}
BaseNames == {Str("note"), Str("a.MP3"), Str(" "), Str(""), Null, Num(7)}
VideoExtensionArgs == {Undefined, Str("MP4"), Str("mkv"), Null}
PhotoExtensionArgs == {Undefined, Str("JPEG"), Str("gif"), Null}
MimeTypeArgs == {Undefined, Str("")}

NoArgs == [payload |-> Undefined, base |-> Undefined, ext |-> Undefined,
           mime |-> Undefined]
Args(p, b, e, m) == [payload |-> p, base |-> b, ext |-> e, mime |-> m]

SaveOps == {"saveAudioFile", "saveVideoFile", "savePhotoFile", "saveDrawingFile",
            "saveTextFile"}

\* The sets of failing backend operations a call may run with: none, or one.
\* (A failure the code swallows and a second failure after it act as the second
\* failure does from the world where the first operation finds nothing: a
\* failing settings read is a missing settings sheet.)
FaultSets(points) == {{}} \cup {{f} : f \in points}

NoCall == [op |-> "none", args |-> NoArgs, faults |-> {}, threw |-> FALSE,
           ret |-> Undefined]

\* The sheets and folders a deployment can start from.
CurrentHistory == [exists |-> TRUE,
                   grid |-> <<HISTORY_HEADERS,
                              <<"old.txt", "T0", HYPERLINK(FolderUrl(1), PARENT_FOLDER_NAME),
                                HYPERLINK(FileUrl(1), "old.txt"), "TXT", "Text">> >>]
NoHistory == [exists |-> FALSE, grid |-> <<>>]
AllModes == [i \in 1..5 |-> Num(1)]
SettingsInits == {[exists |-> FALSE, b1 |-> Str(""), e |-> AllModes],
                  [exists |-> TRUE, b1 |-> Str(""), e |-> AllModes],
                  [exists |-> TRUE, b1 |-> Str(" a/b "), e |-> AllModes]}
ParentOnly == <<[name |-> PARENT_FOLDER_NAME, parent |-> ROOT]>>
OldFile == <<[name |-> "old.txt", folder |-> 1, mime |-> "text/plain"]>>

NoProcs == <<>>

Init ==
  /\ \E h \in {NoHistory, CurrentHistory}, st \in SettingsInits :
       world = [folders |-> IF h.exists THEN ParentOnly ELSE <<>>,
                files |-> IF h.exists THEN OldFile ELSE <<>>,
                settings |-> st, hist |-> h, clock |-> 1, log |-> {}]
  /\ pre = world
  /\ last = NoCall
  /\ calls = 0
  /\ procs = NoProcs
  /\ overlapped = FALSE
  /\ resolved = {}

\* A call begins with an empty log and at a later time.
Begin(w) == [w EXCEPT !.log = {}, !.clock = @ + 1]

Call(op, args, F, r) ==
  /\ last.op = "none"
  /\ pre' = world
  /\ world' = r.w
  /\ last' = [op |-> op, args |-> args, faults |-> F, threw |-> r.threw,
              ret |-> r.v]
  /\ calls' = calls + 1
  /\ UNCHANGED <<procs, overlapped, resolved>>

\* The argument sweep: every handler on every combination of arguments, with
\* no backend failure.
SweepFaults == FaultSets({})

SaveAudio ==
  /\ calls < MaxCalls
  /\ \E p \in Payloads, b \in BaseNames, F \in SweepFaults :
       Call("saveAudioFile", Args(p, b, Undefined, Undefined), F,
            saveAudioFile(Begin(world), p, b, F))

SaveVideo ==
  /\ calls < MaxCalls
  /\ \E p \in Payloads, b \in BaseNames, e \in VideoExtensionArgs, F \in SweepFaults :
       Call("saveVideoFile", Args(p, b, e, Undefined), F,
            saveVideoFile(Begin(world), p, b, e, Undefined, F))

SavePhoto ==
  /\ calls < MaxCalls
  /\ \E p \in Payloads, b \in BaseNames, e \in PhotoExtensionArgs, F \in SweepFaults :
       Call("savePhotoFile", Args(p, b, e, Undefined), F,
            savePhotoFile(Begin(world), p, b, e, F))

SaveDrawing ==
  /\ calls < MaxCalls
  /\ \E p \in Payloads, b \in BaseNames, F \in SweepFaults :
       Call("saveDrawingFile", Args(p, b, Undefined, Undefined), F,
            saveDrawingFile(Begin(world), p, b, F))

SaveText ==
  /\ calls < MaxCalls
  /\ \E p \in Payloads, b \in BaseNames, F \in SweepFaults :
       Call("saveTextFile", Args(p, b, Undefined, Undefined), F,
            saveTextFile(Begin(world), p, b, F))

\* The failure sweep: every handler with each backend operation failing, on
\* arguments that reach the backend and on arguments of the wrong type.
AllFaults == FaultSets(FolderFaults \cup SaveFaults \cup HistoryFaults)
FailPayloads == {ValidAudio, ValidPng, Num(5), Null}
FailBaseNames == {Str("note"), Num(7)}

FailAudio ==
  /\ calls < MaxCalls
  /\ \E p \in FailPayloads, b \in FailBaseNames, F \in AllFaults :
       Call("saveAudioFile", Args(p, b, Undefined, Undefined), F,
            saveAudioFile(Begin(world), p, b, F))

FailVideo ==
  /\ calls < MaxCalls
  /\ \E p \in FailPayloads, b \in FailBaseNames, e \in {Undefined, Null},
        m \in MimeTypeArgs, F \in AllFaults :
       Call("saveVideoFile", Args(p, b, e, m), F,
            saveVideoFile(Begin(world), p, b, e, m, F))

FailPhoto ==
  /\ calls < MaxCalls
  /\ \E p \in FailPayloads, b \in FailBaseNames, e \in {Undefined, Null},
        F \in AllFaults :
       Call("savePhotoFile", Args(p, b, e, Undefined), F,
            savePhotoFile(Begin(world), p, b, e, F))

FailDrawing ==
  /\ calls < MaxCalls
  /\ \E p \in FailPayloads, b \in FailBaseNames, F \in AllFaults :
       Call("saveDrawingFile", Args(p, b, Undefined, Undefined), F,
            saveDrawingFile(Begin(world), p, b, F))

FailText ==
  /\ calls < MaxCalls
  /\ \E p \in FailPayloads \cup {Str("memo")}, b \in FailBaseNames, F \in AllFaults :
       Call("saveTextFile", Args(p, b, Undefined, Undefined), F,
            saveTextFile(Begin(world), p, b, F))

DoGet ==
  /\ calls < MaxCalls
  /\ \E F \in FaultSets(HistoryFaults) :
       Call("doGet", NoArgs, F, doGet(Begin(world), F))

\* The client has received the result: nothing of the call remains but the world.
\* The script's test function, run from the editor.
TestUnifiedMediaApp ==
  /\ calls < MaxCalls
  /\ \E F \in FaultSets(FolderFaults \cup HistoryFaults) :
       Call("test_UnifiedMediaApp", NoArgs, F, test_UnifiedMediaApp(Begin(world), F))

Return ==
  /\ last.op # "none"
  /\ last' = NoCall
  /\ pre' = [world EXCEPT !.log = {}]
  /\ world' = [world EXCEPT !.log = {}]
  /\ UNCHANGED <<calls, procs, overlapped, resolved>>

Next ==
  \/ Return
  \/ SaveAudio \/ SaveVideo \/ SavePhoto \/ SaveDrawing \/ SaveText
  \/ FailAudio \/ FailVideo \/ FailPhoto \/ FailDrawing \/ FailText
  \/ DoGet \/ TestUnifiedMediaApp

Spec == Init /\ [][Next]_vars

(***************************************************************************)
(* The history sheet on its own: legacy sheets, their migration, and the   *)
(* rows the handlers append.                                               *)
(***************************************************************************)
HeaderCells == {"FileName", FILE_FORMAT_HEADER, MEDIA_TYPE_HEADER, "Memo"}
LegacyHeaders == UNION {[1..n -> HeaderCells] : n \in 0..MaxHeaderCols}
LegacyRows == {<<>>, << <<"old.txt", "T0">> >>,
               << <<"old.txt", "T0", "folder", "link", "TXT", "Text">> >>}
LegacyGrids == {IF h = <<>> /\ rows = <<>> THEN <<>> ELSE <<h>> \o rows :
                  h \in LegacyHeaders, rows \in LegacyRows}

HistoryInit ==
  /\ \E h \in {NoHistory} \cup {[exists |-> TRUE, grid |-> g] : g \in LegacyGrids} :
       world = [folders |-> ParentOnly, files |-> OldFile,
                settings |-> [exists |-> TRUE, b1 |-> Str(""), e |-> AllModes],
                hist |-> h, clock |-> 1, log |-> {}]
  /\ pre = world
  /\ last = NoCall
  /\ calls = 0
  /\ procs = NoProcs
  /\ overlapped = FALSE
  /\ resolved = {}

HistoryFaultSets == FaultSets(HistoryFaults \cup {"createFile"})

EnsureHistory ==
  /\ calls < MaxHistoryCalls
  /\ \E F \in FaultSets(HistoryFaults) :
       Call("doGet", NoArgs, F, doGet(Begin(world), F))

LogAudio ==
  /\ calls < MaxHistoryCalls
  /\ \E F \in HistoryFaultSets :
       Call("saveAudioFile", Args(ValidAudio, Str("note"), Undefined, Undefined), F,
            saveAudioFile(Begin(world), ValidAudio, Str("note"), F))

LogVideo ==
  /\ calls < MaxHistoryCalls
  /\ \E F \in HistoryFaultSets :
       Call("saveVideoFile", Args(ValidAudio, Str("clip"), Str("MP4"), Undefined), F,
            saveVideoFile(Begin(world), ValidAudio, Str("clip"), Str("MP4"), Undefined, F))

LogPhoto ==
  /\ calls < MaxHistoryCalls
  /\ \E F \in HistoryFaultSets :
       Call("savePhotoFile", Args(ValidPng, Str("pic"), Str("jpeg"), Undefined), F,
            savePhotoFile(Begin(world), ValidPng, Str("pic"), Str("jpeg"), F))

LogDrawing ==
  /\ calls < MaxHistoryCalls
  /\ \E p \in {ValidPng, ValidAudio}, F \in HistoryFaultSets :
       Call("saveDrawingFile", Args(p, Str("art"), Undefined, Undefined), F,
            saveDrawingFile(Begin(world), p, Str("art"), F))

LogText ==
  /\ calls < MaxHistoryCalls
  /\ \E F \in HistoryFaultSets :
       Call("saveTextFile", Args(Str("memo"), Str("memo"), Undefined, Undefined), F,
            saveTextFile(Begin(world), Str("memo"), Str("memo"), F))

LogTest ==
  /\ calls < MaxHistoryCalls
  /\ \E F \in FaultSets(HistoryFaults) :
       Call("test_UnifiedMediaApp", NoArgs, F, test_UnifiedMediaApp(Begin(world), F))

HistoryNext ==
  \/ Return \/ EnsureHistory
  \/ LogAudio \/ LogVideo \/ LogPhoto \/ LogDrawing \/ LogText \/ LogTest

HistorySpec == HistoryInit /\ [][HistoryNext]_vars

(***************************************************************************)
(* The mode settings on their own: every content of E1:E5.                 *)
(***************************************************************************)
(***************************************************************************)
(* Sequences of calls on the history sheet: doGet, the five save handlers  *)
(* and the test function, one after another, on a sheet that is missing,   *)
(* empty, current or older than the two added columns.                     *)
(***************************************************************************)
OldRow == <<"old.txt", "T0", "folder", "link", "TXT", "Text">>
SequenceSheets ==
  {NoHistory,
   [exists |-> TRUE, grid |-> <<>>],
   CurrentHistory,
   [exists |-> TRUE, grid |-> << <<"FileName", "Memo">>, <<"old.txt", "T0">> >>],
   [exists |-> TRUE, grid |-> << <<"FileName", MEDIA_TYPE_HEADER>>, OldRow >>]}

SequenceInit ==
  /\ \E h \in SequenceSheets :
       world = [folders |-> ParentOnly, files |-> OldFile,
                settings |-> [exists |-> TRUE, b1 |-> Str(""), e |-> AllModes],
                hist |-> h, clock |-> 1, log |-> {}]
  /\ pre = world
  /\ last = NoCall
  /\ calls = 0
  /\ procs = NoProcs
  /\ overlapped = FALSE
  /\ resolved = {}

SequenceFaultSets == FaultSets({"getRange", "setValue", "appendRow", "createFile"})

NextDoGet ==
  /\ calls < MaxSequenceCalls
  /\ \E F \in SequenceFaultSets :
       Call("doGet", NoArgs, F, doGet(Begin(world), F))

NextAudio ==
  /\ calls < MaxSequenceCalls
  /\ \E F \in SequenceFaultSets :
       Call("saveAudioFile", Args(ValidAudio, Str("note"), Undefined, Undefined), F,
            saveAudioFile(Begin(world), ValidAudio, Str("note"), F))

NextVideo ==
  /\ calls < MaxSequenceCalls
  /\ \E F \in SequenceFaultSets :
       Call("saveVideoFile", Args(ValidAudio, Str("clip"), Str("MP4"), Undefined), F,
            saveVideoFile(Begin(world), ValidAudio, Str("clip"), Str("MP4"), Undefined, F))

NextPhoto ==
  /\ calls < MaxSequenceCalls
  /\ \E F \in SequenceFaultSets :
       Call("savePhotoFile", Args(ValidPng, Str("pic"), Str("jpeg"), Undefined), F,
            savePhotoFile(Begin(world), ValidPng, Str("pic"), Str("jpeg"), F))

NextDrawing ==
  /\ calls < MaxSequenceCalls
  /\ \E F \in SequenceFaultSets :
       Call("saveDrawingFile", Args(ValidPng, Str("art"), Undefined, Undefined), F,
            saveDrawingFile(Begin(world), ValidPng, Str("art"), F))

NextText ==
  /\ calls < MaxSequenceCalls
  /\ \E F \in SequenceFaultSets :
       Call("saveTextFile", Args(Str("memo"), Str("memo"), Undefined, Undefined), F,
            saveTextFile(Begin(world), Str("memo"), Str("memo"), F))

NextTest ==
  /\ calls < MaxSequenceCalls
  /\ \E F \in SequenceFaultSets :
       Call("test_UnifiedMediaApp", NoArgs, F, test_UnifiedMediaApp(Begin(world), F))

SequenceNext ==
  \/ Return \/ NextDoGet
  \/ NextAudio \/ NextVideo \/ NextPhoto \/ NextDrawing \/ NextText \/ NextTest

SequenceSpec == SequenceInit /\ [][SequenceNext]_vars

CellValues == {Num(0), Num(1), Str(""), Str("1"), Str("on"), Bool(TRUE),
               Str(" 1e0"), Str("0x2")}

ModeInit ==
  /\ \E ex \in BOOLEAN, e \in [1..5 -> CellValues] :
       /\ ex = FALSE => e = [i \in 1..5 |-> Str("")]
       /\ world = [folders |-> <<>>, files |-> <<>>,
                   settings |-> [exists |-> ex, b1 |-> Str(""), e |-> e],
                   hist |-> NoHistory, clock |-> 1, log |-> {}]
  /\ pre = world
  /\ last = NoCall
  /\ calls = 0
  /\ procs = NoProcs
  /\ overlapped = FALSE
  /\ resolved = {}

GetModeSettings ==
  /\ calls < MaxModeCalls
  /\ \E F \in FaultSets(ModeFaults) :
       Call("getModeSettings", NoArgs, F, getModeSettings(Begin(world), F))

ModeNext == Return \/ GetModeSettings

ModeSpec == ModeInit /\ [][ModeNext]_vars

(***************************************************************************)
(* Interleaved save calls.  Each execution is a script run of its own; the *)
(* backend calls are where another run can act in between, so a run is     *)
(* split at every backend call that reads or writes what the runs share:   *)
(* the folder lookups and creations, the settings read, the file creation, *)
(* the history sheet lookup, its insertion and header row, its width, the  *)
(* reading of its header row and each column write, the clock, the row     *)
(* append.  procs[p] is run p's position and its local variables (its      *)
(* Logger among them); overlapped records whether some run began while     *)
(* another was under way; resolved is every <<name, parent, id>> the folder *)
(* resolver returned.                                                      *)
(***************************************************************************)
Idle == [pc |-> "idle", parent |-> ROOT, sub |-> Null, target |-> ROOT,
         file |-> 0, lastColumn |-> 0, headers |-> <<>>, stamp |-> 0, log |-> {}]

\* The Drive, B1 and the history sheet the runs start from: the parent folder is
\* yet to be made, or the subfolder B1 names, or the two columns of a history
\* sheet that is older than them.
RaceWorlds == {[folders |-> <<>>, b1 |-> Str(""), hist |-> NoHistory],
               [folders |-> ParentOnly, b1 |-> Str("a/b"), hist |-> NoHistory],
               [folders |-> ParentOnly, b1 |-> Str(""),
                hist |-> [exists |-> TRUE, grid |-> << <<"FileName", "SavedAt">> >>]]}

RaceInit ==
  /\ \E c \in RaceWorlds :
       world = [folders |-> c.folders, files |-> <<>>,
                settings |-> [exists |-> TRUE, b1 |-> c.b1, e |-> AllModes],
                hist |-> c.hist, clock |-> 1, log |-> {}]
  /\ pre = world
  /\ last = NoCall
  /\ calls = 0
  /\ procs = [p \in 1..NProcs |-> Idle]
  /\ overlapped = FALSE
  /\ resolved = {}

\* The client calls saveTextFile("memo", "p<n>"): the arguments pass the checks
\* of lines 400-405.
RaceCall(p) ==
  /\ procs[p].pc = "idle"
  /\ calls < MaxRaceCalls
  /\ calls' = calls + 1
  /\ world' = Begin(world)
  /\ procs' = [procs EXCEPT ![p] = [Idle EXCEPT !.pc = "lookupParent"]]
  /\ overlapped' = (overlapped \/ \E q \in 1..NProcs : q # p /\ procs[q].pc # "idle")
  /\ UNCHANGED <<pre, last, resolved>>

\* Which folder the run is resolving: the parent under the root, or the subfolder.
ResolvingParent(p) == procs[p].pc \in {"lookupParent", "createParent"}
ResolveName(p) == IF ResolvingParent(p) THEN PARENT_FOLDER_NAME ELSE procs[p].sub.s
ResolveIn(p) == IF ResolvingParent(p) THEN ROOT ELSE procs[p].parent

Resolved(p, id, tags) ==
  /\ resolved' = resolved \cup {<<ResolveName(p), ResolveIn(p), id>>}
  /\ procs' = [procs EXCEPT ![p] =
                 IF ResolvingParent(p)
                 THEN [@ EXCEPT !.pc = "readSub", !.parent = id, !.log = @ \cup tags]
                 ELSE [@ EXCEPT !.pc = "createFile", !.target = id, !.log = @ \cup tags]]

\* Lines 34-36: the lookup; with several folders of the name the platform
\* returns any of them first.
RaceLookup(p) ==
  /\ procs[p].pc \in {"lookupParent", "lookupSub"}
  /\ LET found == getFoldersByName(world.folders, ResolveIn(p), ResolveName(p))
     IN IF found = {}
        THEN /\ procs' = [procs EXCEPT ![p].pc =
                            IF ResolvingParent(p) THEN "createParent" ELSE "createSub"]
             /\ UNCHANGED resolved
        ELSE \E id \in found : Resolved(p, id, {})
  /\ UNCHANGED <<world, pre, last, calls, overlapped>>

\* Lines 38-41: the creation the lookup decided on.
RaceCreate(p) ==
  /\ procs[p].pc \in {"createParent", "createSub"}
  /\ world' = [world EXCEPT !.folders = createFolder(@, ResolveIn(p), ResolveName(p))]
  /\ Resolved(p, Len(world.folders) + 1, {"folderCreated"})
  /\ UNCHANGED <<pre, last, calls, overlapped>>

\* Lines 409-424: the subfolder name decides the target.
RaceReadSub(p) ==
  /\ procs[p].pc = "readSub"
  /\ LET subFolderNameRaw == getSubFolderNameFromSheet(world, {})
     IN procs' = [procs EXCEPT ![p] =
                    IF Truthy(subFolderNameRaw)
                    THEN [@ EXCEPT !.pc = "lookupSub", !.sub = subFolderNameRaw]
                    ELSE [@ EXCEPT !.pc = "createFile", !.target = procs[p].parent]]
  /\ UNCHANGED <<world, pre, last, calls, overlapped, resolved>>

\* What run p saves: its file name, and the path text of lines 418-423.
RaceFileName(p) == "p" \o IntToStr(p) \o ".txt"
RacePathText(p) ==
  IF procs[p].target = procs[p].parent
  THEN FolderName(world.folders, procs[p].parent)
  ELSE FolderName(world.folders, procs[p].parent) \o " > "
         \o FolderName(world.folders, procs[p].target)

\* Lines 426-427: the file is created in the target folder.
RaceCreateFile(p) ==
  /\ procs[p].pc = "createFile"
  /\ world' = createFile(world, procs[p].target, RaceFileName(p), "text/plain")
  /\ procs' = [procs EXCEPT ![p] = [@ EXCEPT !.pc = "getSheet",
                                             !.file = Len(world.files) + 1]]
  /\ UNCHANGED <<pre, last, calls, overlapped, resolved>>

\* Lines 433-436 and the end of the run: saveTextFile returns its success
\* object; the history log has caught whatever it threw (line 142).
RaceReturn(p, w, tags) ==
  /\ world' = [w EXCEPT !.log = procs[p].log \cup tags]
  /\ last' = [op |-> "saveTextFile",
              args |-> Args(Str("memo"), Str("p" \o IntToStr(p)), Undefined, Undefined),
              faults |-> {}, threw |-> FALSE,
              ret |-> Success("Text", "",
                              [fileName |-> RaceFileName(p),
                               folderPathText |-> RacePathText(p)])]
  /\ procs' = [procs EXCEPT ![p] = Idle]

\* Lines 78-81: the history sheet is looked up by name.
RaceGetSheet(p) ==
  /\ procs[p].pc = "getSheet"
  /\ procs' = [procs EXCEPT ![p].pc = IF world.hist.exists THEN "getLastColumn"
                                      ELSE "insertSheet"]
  /\ UNCHANGED <<world, pre, last, calls, overlapped, resolved>>

\* Line 82: insertSheet throws when a sheet of the name is there by now.
RaceInsertSheet(p) ==
  /\ procs[p].pc = "insertSheet"
  /\ IF world.hist.exists
     THEN RaceReturn(p, world, {"historyError"})
     ELSE /\ world' = [world EXCEPT !.hist = [exists |-> TRUE, grid |-> <<>>]]
          /\ procs' = [procs EXCEPT ![p].pc = "appendHeaders"]
          /\ UNCHANGED last
  /\ UNCHANGED <<pre, calls, overlapped, resolved>>

\* Lines 83-94: the header row of the new sheet.
RaceAppendHeaders(p) ==
  /\ procs[p].pc = "appendHeaders"
  /\ world' = [world EXCEPT !.hist.grid = appendRow(@, HISTORY_HEADERS)]
  /\ procs' = [procs EXCEPT ![p] = [@ EXCEPT !.pc = "timestamp",
                                             !.log = @ \cup {"historyCreated"}]]
  /\ UNCHANGED <<pre, last, calls, overlapped, resolved>>

\* Line 97, sheet.getLastColumn(): the width of the sheet that was there.
RaceGetLastColumn(p) ==
  /\ procs[p].pc = "getLastColumn"
  /\ procs' = [procs EXCEPT ![p] = [@ EXCEPT !.pc = "getHeaders",
                                             !.lastColumn = getLastColumn(world.hist.grid)]]
  /\ UNCHANGED <<world, pre, last, calls, overlapped, resolved>>

\* Where the run goes after a step of the header check: `headers` is the one
\* reading both column checks test (lines 100 and 108).
AfterHeaders(headers, mediaDone) ==
  IF ~mediaDone /\ ~includes(headers, MEDIA_TYPE_HEADER) THEN "setMediaType"
  ELSE IF ~includes(headers, FILE_FORMAT_HEADER) THEN "setFileFormat"
  ELSE "timestamp"

\* Line 97, getRange(1, 1, 1, lastColumn).getValues()[0]: the header row as it
\* is by now, over the width read before; a width of 0 makes getRange throw.
RaceGetHeaders(p) ==
  /\ procs[p].pc = "getHeaders"
  /\ IF procs[p].lastColumn < 1
     THEN RaceReturn(p, world, {"historyError"})
     ELSE LET headers == getRowValues(world.hist.grid, 1, procs[p].lastColumn)
          IN /\ procs' = [procs EXCEPT ![p] = [@ EXCEPT !.pc = AfterHeaders(headers, FALSE),
                                                        !.headers = headers]]
             /\ UNCHANGED <<world, last>>
  /\ UNCHANGED <<pre, calls, overlapped, resolved>>

\* Lines 100-105: the media type column is written after the headers read.
RaceSetMediaType(p) ==
  /\ procs[p].pc = "setMediaType"
  /\ world' = [world EXCEPT !.hist.grid =
                  setValue(@, 1, Len(procs[p].headers) + 1, MEDIA_TYPE_HEADER)]
  /\ procs' = [procs EXCEPT ![p].pc = AfterHeaders(procs[p].headers, TRUE)]
  /\ UNCHANGED <<pre, last, calls, overlapped, resolved>>

\* Lines 108-113: the file format column, placed by the same reading.
RaceSetFileFormat(p) ==
  /\ procs[p].pc = "setFileFormat"
  /\ LET headers == procs[p].headers
         newCol == IF includes(headers, MEDIA_TYPE_HEADER)
                   THEN Len(headers) ELSE Len(headers) + 1
     IN world' = [world EXCEPT !.hist.grid = setValue(@, 1, newCol, FILE_FORMAT_HEADER)]
  /\ procs' = [procs EXCEPT ![p].pc = "timestamp"]
  /\ UNCHANGED <<pre, last, calls, overlapped, resolved>>

\* Lines 125-126: the time of the record.
RaceTimestamp(p) ==
  /\ procs[p].pc = "timestamp"
  /\ procs' = [procs EXCEPT ![p] = [@ EXCEPT !.pc = "appendRow", !.stamp = world.clock]]
  /\ UNCHANGED <<world, pre, last, calls, overlapped, resolved>>

\* Lines 128-141: the row is appended under the rows there are by now.
RaceAppendRow(p) ==
  /\ procs[p].pc = "appendRow"
  /\ RaceReturn(p,
                [world EXCEPT !.hist.grid =
                   appendRow(@, HistoryRow([clock |-> procs[p].stamp], RaceFileName(p),
                                           RacePathText(p), FolderUrl(procs[p].target),
                                           FileUrl(procs[p].file), "TXT", "Text"))],
                {"historyRecorded"})
  /\ UNCHANGED <<pre, calls, overlapped, resolved>>

RaceNext ==
  \E p \in 1..NProcs :
    \/ RaceCall(p) \/ RaceLookup(p) \/ RaceCreate(p) \/ RaceReadSub(p)
    \/ RaceCreateFile(p) \/ RaceGetSheet(p) \/ RaceInsertSheet(p)
    \/ RaceAppendHeaders(p) \/ RaceGetLastColumn(p) \/ RaceGetHeaders(p)
    \/ RaceSetMediaType(p) \/ RaceSetFileFormat(p) \/ RaceTimestamp(p)
    \/ RaceAppendRow(p)

RaceSpec == RaceInit /\ [][RaceNext]_vars

(***************************************************************************)
(* What a call did, read off the world before it and after it.             *)
(***************************************************************************)
SaveCall == last.op \in SaveOps
Succeeded == ~last.threw /\ last.ret.success
Failed == ~last.threw /\ ~last.ret.success

FilesCreated == Len(world.files) - Len(pre.files)
NewFile == world.files[Len(world.files)]

\* The rows under the header row.
DataRows(h) == IF Len(h.grid) = 0 THEN <<>> ELSE Tail(h.grid)
RowsAppended == Len(DataRows(world.hist)) - Len(DataRows(pre.hist))
Header(h) == IF Len(h.grid) = 0 THEN <<>> ELSE h.grid[1]

\* The folder a save is meant for: the child of the parent folder named by B1
\* (sanitised) when B1 holds a name, else the parent folder.
ParentFolders == getFoldersByName(world.folders, ROOT, PARENT_FOLDER_NAME)
SubFolderNamed ==
  IF pre.settings.exists /\ trim(JsToString(pre.settings.b1)) # ""
  THEN Str(sanitize(trim(JsToString(pre.settings.b1))))
  ELSE Null
TargetFolders ==
  IF SubFolderNamed = Null THEN ParentFolders
  ELSE UNION {getFoldersByName(world.folders, f, SubFolderNamed.s) : f \in ParentFolders}

\* A data URL as the client builds one: data:<mime>;base64,<data>.
Base64At(s) == {i \in 1..Len(s) : i + 7 <= Len(s) /\ SubSeq(s, i, i + 7) = ";base64,"}
HasBase64Section(s) == \E i \in Base64At(s) : i + 8 <= Len(s)
WellFormedDataUrl(s) ==
  /\ startsWith(s, "data:")
  /\ \E i \in Base64At(s) : i > 6 /\ i + 8 <= Len(s)
MalformedDataUrl(s) == ~startsWith(s, "data:") \/ ~HasBase64Section(s)

NonEmptyString(v) == IsString(v) /\ v.s # ""

ValidPayloadFor(op, v) ==
  /\ IsString(v)
  /\ CASE op = "saveTextFile" -> v.s # ""
       [] op = "saveDrawingFile" -> WellFormedDataUrl(v.s) /\ startsWith(v.s, PngPrefix)
       [] OTHER -> WellFormedDataUrl(v.s)

\* The extension the claim names: the lower-cased supplied extension when it is
\* in the allow-list, otherwise the default.
AllowedOrDefault(ext, allowed, default) ==
  IF IsString(ext) /\ toLowerCase(ext.s) \in allowed THEN toLowerCase(ext.s)
  ELSE default

ExtensionFor(op, ext) ==
  CASE op = "saveAudioFile" -> "mp3"
    [] op = "saveVideoFile" -> AllowedOrDefault(ext, VideoExtensions, "webm")
    [] op = "savePhotoFile" -> AllowedOrDefault(ext, PhotoExtensions, "jpg")
    [] op = "saveDrawingFile" -> "png"
    [] OTHER -> "txt"

SavedOneFileNamed(name) ==
  /\ Succeeded
  /\ FilesCreated = 1
  /\ NewFile.name = name
  /\ NewFile.folder \in TargetFolders

C1_Valid ==
  /\ SaveCall
  /\ ValidPayloadFor(last.op, last.args.payload)
  /\ NonEmptyString(last.args.base)
  /\ last.faults = {}

\* C1: with a payload that is valid for the handler, a base name that is a
\* non-empty string and no failing backend call, the call returns success:true
\* and creates exactly one file, in the target folder, named <base name>.<the
\* extension of the media type>: mp3, png, txt, and for video and photo the
\* lower-cased supplied extension when it is in the allow-list, otherwise the
\* default.
C1_SavesBaseDotExtension ==
  C1_Valid =>
    SavedOneFileNamed(last.args.base.s \o "." \o ExtensionFor(last.op, last.args.ext))

DataUrlOps == SaveOps \ {"saveTextFile"}

C2_Rejected == Failed /\ FilesCreated = 0 /\ RowsAppended = 0

\* C2 as stated: every one of the five handlers rejects a payload that is not a
\* well-formed data URL, creating no file and appending no history row.
C2_AllHandlersRejectMalformed ==
  (SaveCall /\ IsString(last.args.payload) /\ MalformedDataUrl(last.args.payload.s))
    => C2_Rejected

\* C2, amended: the four data-URL handlers (audio, video, photo, drawing) reject
\* a payload that is not a well-formed data URL: success:false, no file created,
\* no history row appended.  (saveTextFile takes any non-empty string as text.)
C2_DataUrlHandlersRejectMalformed ==
  (last.op \in DataUrlOps /\ IsString(last.args.payload)
     /\ MalformedDataUrl(last.args.payload.s))
    => C2_Rejected

C2_Witness ==
  /\ last.op = "savePhotoFile"
  /\ last.args.payload = Str("image/png;base64,AAAA")
  /\ last.args.base = Str("note")
  /\ last.faults = {}
  /\ C2_Rejected
  /\ Len(world.folders) > Len(pre.folders)

IsResult(v) ==
  /\ "success" \in DOMAIN v
  /\ v.success \in BOOLEAN
  /\ ~v.success => "message" \in DOMAIN v

\* C3: no exception escapes a save handler: whatever the arguments and whichever
\* backend call fails, the handler returns an object with success:true or an
\* object {success:false, message}.
C3_NoExceptionEscapes == SaveCall => (~last.threw /\ IsResult(last.ret))

C3_Witness ==
  /\ last.op = "saveVideoFile"
  /\ last.args.payload = ValidAudio
  /\ last.args.base = Str("note")
  /\ last.args.ext = Null
  /\ Failed
  /\ "saveError" \in world.log

\* C8: a payload or a base name that is not a non-empty string is rejected by
\* every handler: success:false, no file, no history row.
C8_RejectsInvalidArguments ==
  (SaveCall /\ (~NonEmptyString(last.args.payload) \/ ~NonEmptyString(last.args.base)))
    => (Failed /\ FilesCreated = 0 /\ RowsAppended = 0)

\* C4: a failure inside the history log never changes the outcome of a save: when
\* the file has been created and its URL read, and no history row was appended
\* (the log failed: opening the spreadsheet, the schema check or migration, the
\* timestamp, appendRow), the handler still returns success:true and the file is
\* there.
C4_LogFailureIsolated ==
  (SaveCall /\ FilesCreated = 1 /\ "getUrl" \notin last.faults /\ RowsAppended = 0)
    => (Succeeded /\ SubSeq(world.files, 1, Len(pre.files)) = pre.files)

C4_Witness ==
  /\ SaveCall
  /\ FilesCreated = 1
  /\ RowsAppended = 0
  /\ "historyError" \in world.log
  /\ last.faults = {}
  /\ Succeeded

\* C5: the schema migration is purely additive: every header cell that held text
\* before the call holds the same text at the same column after it.
C5_MigrationKeepsHeaders ==
  (last.op # "none" /\ pre.hist.exists)
    => \A c \in 1..Len(Header(pre.hist)) :
         Header(pre.hist)[c] # "" =>
           /\ c <= Len(Header(world.hist))
           /\ Header(world.hist)[c] = Header(pre.hist)[c]

CountOf(headers, name) == Cardinality({c \in 1..Len(headers) : headers[c] = name})

\* C6: on an existing sheet whose header lacks the media type column, one call of
\* createHistorySheetIfNotExists leaves a header holding it exactly once, and a
\* second call changes nothing.
C6_MigrationAddsMediaTypeOnce ==
  (last.op = "doGet" /\ ~last.threw /\ pre.hist.exists
     /\ ~includes(Header(pre.hist), MEDIA_TYPE_HEADER))
    => /\ CountOf(Header(world.hist), MEDIA_TYPE_HEADER) = 1
       /\ createHistorySheetIfNotExists(world, {}).w.hist = world.hist

\* C9: the data rows are an append-only log: no call changes or removes a data
\* row or puts one anywhere but after the rows there were; a call of a save
\* handler or of createHistorySheetIfNotExists (doGet) appends at most one row,
\* and only a save handler whose file was created appends one.
C9_HistoryAppendOnly ==
  last.op # "none" =>
    LET old == DataRows(pre.hist)
        new == DataRows(world.hist)
    IN /\ Len(new) >= Len(old)
       /\ SubSeq(new, 1, Len(old)) = old
       /\ last.op \in SaveOps \cup {"doGet"} =>
            \/ new = old
            \/ /\ Len(new) = Len(old) + 1
               /\ SaveCall
               /\ FilesCreated = 1
               /\ new[Len(new)][1] = NewFile.name

\* A row from before, then two saves of this run of calls, in the order of the
\* calls, the second on a sheet whose header an earlier call migrated.
C9_Witness ==
  /\ SaveCall
  /\ calls >= 2
  /\ RowsAppended = 1
  /\ LET rows == DataRows(world.hist)
         n == Len(rows)
     IN /\ n >= 3
        /\ rows[1] = <<"old.txt", "T0">>
        /\ rows[n - 1][2] = formatDate(world.clock - 1)
        /\ rows[n][2] = formatDate(world.clock)
        /\ rows[n][1] = NewFile.name
        /\ rows[n - 1][1] # rows[n][1]

ModeCall == last.op = "getModeSettings"
AnyVisible(v) == v.audio \/ v.video \/ v.photo \/ v.drawing \/ v.text
AllHidden(e) == \A i \in 1..5 : ~LooseEqualsOne(e[i])

\* C7 as stated: at least one mode is reported enabled whatever E1:E5 hold,
\* with the sheet missing and on a read or write error; and whenever all five
\* cells read as not equal to 1 the call writes 1 into E1 and returns audio:true
\* with the other four false, so that the stored flags are no longer all false.
C7_AlwaysCorrects ==
  ModeCall =>
    /\ ~last.threw
    /\ AnyVisible(last.ret)
    /\ (pre.settings.exists /\ AllHidden(pre.settings.e) /\ "modeOpen" \notin last.faults)
         => /\ world.settings.e[1] = Num(1)
            /\ last.ret = Visible(TRUE, FALSE, FALSE, FALSE, FALSE)
            /\ ~AllHidden(world.settings.e)

\* C7, amended: at least one mode is reported enabled whatever E1:E5 hold, with
\* the sheet missing and on a read or write error; when all five cells read as
\* not equal to 1 and the write into E1 succeeds, the call writes 1 into E1,
\* leaves E2:E5 as they were and returns audio:true with the other four false,
\* so that the stored flags are no longer all false; when that write fails, the
\* call returns all five modes true with an error and the cells stay as they
\* were, all not equal to 1.
C7_SomeModeEnabled ==
  ModeCall =>
    /\ ~last.threw
    /\ AnyVisible(last.ret)
    /\ (pre.settings.exists /\ AllHidden(pre.settings.e) /\ last.faults = {})
         => /\ world.settings.e[1] = Num(1)
            /\ last.ret = Visible(TRUE, FALSE, FALSE, FALSE, FALSE)
            /\ ~AllHidden(world.settings.e)
            /\ \A i \in 2..5 : world.settings.e[i] = pre.settings.e[i]
    /\ (pre.settings.exists /\ AllHidden(pre.settings.e) /\ last.faults = {"modeSetValue"})
         => /\ last.ret = AllVisible
            /\ world.settings = pre.settings

C7_Witness ==
  /\ ModeCall
  /\ pre.settings.exists
  /\ AllHidden(pre.settings.e)
  /\ pre.settings.e[1] = Str("on")
  /\ last.faults = {}
  /\ world.settings.e[1] = Num(1)
  /\ last.ret.audio /\ ~last.ret.video

NoDuplicateFolders(folders) ==
  \A i, j \in 1..Len(folders) :
    (folders[i].name = folders[j].name /\ folders[i].parent = folders[j].parent) => i = j

\* C10: while calls run one after another the folder resolver never creates a
\* second folder of a name under a parent and returns the same id for a name and
\* parent every time.  (That interleaved calls do create two is the witness.)
C10_SequentialResolveIdempotent ==
  ~overlapped =>
    /\ NoDuplicateFolders(world.folders)
    /\ \A a, b \in resolved : (a[1] = b[1] /\ a[2] = b[2]) => a[3] = b[3]

\* Two interleaved saves: two parent folders of the same name, and the two files
\* in different folders.
C10_Witness ==
  /\ overlapped
  /\ \A p \in 1..NProcs : procs[p].pc = "idle"
  /\ ~NoDuplicateFolders(world.folders)
  /\ Len(world.files) = 2
  /\ world.files[1].folder # world.files[2].folder

====
